---- MODULE Spec2Model ----
(***************************************************************************)
(* Model of packages/core/fix_error_codes.py: the script reads a text      *)
(* file, finds the assignments matching its regular expression, and       *)
(* renumbers the duplicate codes at or above 2134, then overwrites the     *)
(* file.  A text is a sequence of one-character strings; offsets are       *)
(* 0-based as in Python, so the character at offset p is text[p + 1].      *)
(***************************************************************************)
EXTENDS Integers, Sequences, FiniteSets, TLC

VARIABLES
    file,        \* contents of programs/agent-marketplace/src/lib.rs on disk
    orig,        \* history: contents of the file when the run started
    pc,          \* position of the script
    content,     \* the script's variable content
    matches,     \* the script's list matches (spans and group(2) as parsed)
    idx,         \* 1-based position of the for loop in matches
    seen_codes,  \* keys of the script's dict seen_codes
    next_code,   \* the script's variable next_code
    replaced,    \* history: <<[at |-> match index, val |-> code written]>>
    stdout       \* lines printed, each the next_code the status line reports

vars == <<file, orig, pc, content, matches, idx, seen_codes, next_code,
          replaced, stdout>>

----------------------------------------------------------------------------
(* Bounds of the checked inputs *)

MaxLines == 3

MaxPadLines == 4

----------------------------------------------------------------------------
(* Program constants *)

Threshold == 2134

StartCode == 2135

----------------------------------------------------------------------------
(* Character classes of Python's re on the characters used *)

Digits == <<"0", "1", "2", "3", "4", "5", "6", "7", "8", "9">>

IsDigit(c) == \E d \in 1..10 : Digits[d] = c

IsSpace(c) == c \in {" ", "\t", "\n", "\r", "\f"}

IsWord(c) ==
    \/ IsDigit(c)
    \/ c \in {"A", "B", "C", "D", "E", "F", "G", "H", "I", "J", "K", "L", "M",
              "N", "O", "P", "Q", "R", "S", "T", "U", "V", "W", "X", "Y", "Z",
              "a", "b", "c", "d", "e", "f", "g", "h", "i", "j", "k", "l", "m",
              "n", "o", "p", "q", "r", "s", "t", "u", "v", "w", "x", "y", "z",
              "_"}

----------------------------------------------------------------------------
(* int() and str() on decimal text *)

DigitVal(c) == (CHOOSE d \in 1..10 : Digits[d] = c) - 1

RECURSIVE ParseInt(_)
ParseInt(ds) ==
    IF ds = <<>> THEN 0
    ELSE 10 * ParseInt(SubSeq(ds, 1, Len(ds) - 1)) + DigitVal(ds[Len(ds)])

RECURSIVE ToStr(_)
ToStr(n) ==
    IF n < 10 THEN <<Digits[n + 1]>>
    ELSE Append(ToStr(n \div 10), Digits[(n % 10) + 1])

----------------------------------------------------------------------------
(* Python slices text[:p] and text[p:], which clamp p to the length *)

Min(a, b) == IF a < b THEN a ELSE b

SliceTo(text, p) == SubSeq(text, 1, Min(p, Len(text)))

SliceFrom(text, p) == SubSeq(text, Min(p, Len(text)) + 1, Len(text))

(* content[:match.start(2)] + str(next_code) + content[match.end(2):] *)
Splice(text, m, n) == SliceTo(text, m.s2) \o ToStr(n) \o SliceFrom(text, m.e2)

----------------------------------------------------------------------------
(* The regular expression: group 1 is whitespace (one or more), word       *)
(* characters (one or more), optional whitespace, "=", optional            *)
(* whitespace; group 2 is digits (one or more); then a comma               *)

(* offset just past the longest run of characters of one class from p *)
RECURSIVE SpaceEnd(_, _)
SpaceEnd(text, p) ==
    IF p < Len(text) /\ IsSpace(text[p + 1]) THEN SpaceEnd(text, p + 1) ELSE p

RECURSIVE WordEnd(_, _)
WordEnd(text, p) ==
    IF p < Len(text) /\ IsWord(text[p + 1]) THEN WordEnd(text, p + 1) ELSE p

RECURSIVE DigitEnd(_, _)
DigitEnd(text, p) ==
    IF p < Len(text) /\ IsDigit(text[p + 1]) THEN DigitEnd(text, p + 1) ELSE p

CharAt(text, p, c) == p < Len(text) /\ text[p + 1] = c

(* where the leading \s+ of a match attempted at offset p ends; a match    *)
(* needs at least one whitespace character there                           *)
LeadEnd(text, p) == SpaceEnd(text, p)

(* variant: the leading whitespace made optional *)
LeadOkOptional(text, p) == LeadEnd(text, p) >= p

LeadOk(text, p) == LeadEnd(text, p) > p

(* the match attempted at offset p: every quantifier is greedy and the     *)
(* character after each run cannot belong to the run, so the only          *)
(* candidate takes the longest run of each class                           *)
Attempt(text, p) ==
    LET a == LeadEnd(text, p)
        b == WordEnd(text, a)
        c == SpaceEnd(text, b)
        d == SpaceEnd(text, c + 1)
        e == DigitEnd(text, d)
    IN  [ok    |-> /\ LeadOk(text, p)
                   /\ b > a
                   /\ CharAt(text, c, "=")
                   /\ e > d
                   /\ CharAt(text, e, ","),
         start |-> p, s2 |-> d, e2 |-> e, end |-> e + 1]

(* re.finditer: leftmost match from pos, then on from the end of the match *)
RECURSIVE FindIter(_, _)
FindIter(text, pos) ==
    IF pos >= Len(text) THEN <<>>
    ELSE LET m == Attempt(text, pos)
         IN  IF m.ok
             THEN <<[start |-> m.start, s2 |-> m.s2, e2 |-> m.e2,
                     end |-> m.end,
                     code |-> ParseInt(SubSeq(text, m.s2 + 1, m.e2))]>>
                  \o FindIter(text, m.end)
             ELSE FindIter(text, pos + 1)

----------------------------------------------------------------------------
(* Input files: lines "<indent><letter> = <numeral>," joined by newlines *)

Numerals ==
    { <<"1", "0">>, <<"2", "1", "3", "4">>, <<"2", "1", "3", "5">>,
      <<"2", "1", "4", "0">>, <<"9", "9", "9", "9">>,
      <<"0", "2", "1", "3", "4">>,
      <<"0", "0", "0", "0", "0", "2", "1", "3", "4">> }

PadNumerals ==
    { <<"1", "0">>, <<"2", "1", "3", "4">>,
      <<"0", "0", "0", "0", "0", "2", "1", "3", "4">> }

Names == <<"A", "B", "C", "D", "E", "F">>

Indents == { <<>>, <<" ">> }

Line(indent, k, num) == indent \o <<Names[k], " ", "=", " ">> \o num \o <<",">>

RECURSIVE Files(_, _, _)
Files(indent, nums, n) ==
    IF n = 0 THEN { <<>> }
    ELSE IF n = 1 THEN { Line(indent, 1, num) : num \in nums }
    ELSE { f \o <<"\n">> \o Line(indent, n, num) :
             f \in Files(indent, nums, n - 1), num \in nums }

Inputs ==
    UNION { Files(indent, Numerals, n) : indent \in Indents, n \in 0..MaxLines }
    \cup UNION { Files(<<" ">>, PadNumerals, n) : n \in 1..MaxPadLines }

----------------------------------------------------------------------------
(* The script *)

Init ==
    /\ orig \in Inputs
    /\ file = orig
    /\ pc = "read"
    /\ content = <<>>
    /\ matches = <<>>
    /\ idx = 1
    /\ seen_codes = {}
    /\ next_code = StartCode
    /\ replaced = <<>>
    /\ stdout = <<>>

(* with open(..., 'r') as f: content = f.read() *)
ReadFile ==
    /\ pc = "read"
    /\ content' = file
    /\ pc' = "scan"
    /\ UNCHANGED <<file, orig, matches, idx, seen_codes, next_code, replaced,
                   stdout>>

(* open(..., 'r') or f.read() raises: the script stops with a traceback *)
ReadFail ==
    /\ pc = "read"
    /\ pc' = "read_failed"
    /\ UNCHANGED <<file, orig, content, matches, idx, seen_codes, next_code,
                   replaced, stdout>>

(* matches = list(re.finditer(pattern, content)); seen_codes = {};         *)
(* next_code = 2135                                                        *)
FindMatches ==
    /\ pc = "scan"
    /\ matches' = FindIter(content, 0)
    /\ seen_codes' = {}
    /\ next_code' = StartCode
    /\ idx' = 1
    /\ pc' = "loop"
    /\ UNCHANGED <<file, orig, content, replaced, stdout>>

(* loop body, code < 2134: nothing is done *)
SkipBelow ==
    /\ pc = "loop"
    /\ idx <= Len(matches)
    /\ matches[idx].code < Threshold
    /\ idx' = idx + 1
    /\ UNCHANGED <<file, orig, pc, content, matches, seen_codes, next_code,
                   replaced, stdout>>

(* variant: the membership test inverted *)
IsDuplicateInverted(code) == code \notin seen_codes

IsDuplicate(code) == code \in seen_codes

(* variant: the code handed out is also recorded in seen_codes *)
ReplaceDuplicateMarking ==
    /\ pc = "loop"
    /\ idx <= Len(matches)
    /\ matches[idx].code >= Threshold
    /\ IsDuplicate(matches[idx].code)
    /\ content' = Splice(content, matches[idx], next_code)
    /\ seen_codes' = seen_codes \cup {next_code}
    /\ next_code' = next_code + 1
    /\ replaced' = Append(replaced, [at |-> idx, val |-> next_code])
    /\ idx' = idx + 1
    /\ UNCHANGED <<file, orig, pc, matches, stdout>>

(* loop body, code in seen_codes: splice next_code in, next_code += 1 *)
ReplaceDuplicate ==
    /\ pc = "loop"
    /\ idx <= Len(matches)
    /\ matches[idx].code >= Threshold
    /\ IsDuplicate(matches[idx].code)
    /\ content' = Splice(content, matches[idx], next_code)
    /\ next_code' = next_code + 1
    /\ replaced' = Append(replaced, [at |-> idx, val |-> next_code])
    /\ idx' = idx + 1
    /\ UNCHANGED <<file, orig, pc, matches, seen_codes, stdout>>

(* variant: next_code follows every newly seen code, smaller ones too *)
AdvanceAlways(code) == code + 1

(* variant: a newly seen code equal to next_code does not move it *)
AdvanceStrict(code) == IF code > next_code THEN code + 1 ELSE next_code

Advance(code) == IF code >= next_code THEN code + 1 ELSE next_code

(* loop body, first time the code is met: record it, move next_code past *)
RecordSeen ==
    /\ pc = "loop"
    /\ idx <= Len(matches)
    /\ matches[idx].code >= Threshold
    /\ ~IsDuplicate(matches[idx].code)
    /\ seen_codes' = seen_codes \cup {matches[idx].code}
    /\ next_code' = Advance(matches[idx].code)
    /\ idx' = idx + 1
    /\ UNCHANGED <<file, orig, pc, content, matches, replaced, stdout>>

(* variant: the loop may be left before its last match *)
LoopEndEarly ==
    /\ pc = "loop"
    /\ pc' = "open_w"
    /\ UNCHANGED <<file, orig, content, matches, idx, seen_codes, next_code,
                   replaced, stdout>>

(* the for loop is exhausted *)
LoopEnd ==
    /\ pc = "loop"
    /\ idx > Len(matches)
    /\ pc' = "open_w"
    /\ UNCHANGED <<file, orig, content, matches, idx, seen_codes, next_code,
                   replaced, stdout>>

(* open(..., 'w') truncates the file *)
OpenWrite ==
    /\ pc = "open_w"
    /\ file' = <<>>
    /\ pc' = "write"
    /\ UNCHANGED <<orig, content, matches, idx, seen_codes, next_code,
                   replaced, stdout>>

(* open(..., 'w') raises (permissions): nothing is written *)
OpenWriteFail ==
    /\ pc = "open_w"
    /\ pc' = "write_failed"
    /\ UNCHANGED <<file, orig, content, matches, idx, seen_codes, next_code,
                   replaced, stdout>>

(* f.write(content) and the close at the end of the with block *)
WriteFile ==
    /\ pc = "write"
    /\ file' = content
    /\ pc' = "print"
    /\ UNCHANGED <<orig, content, matches, idx, seen_codes, next_code,
                   replaced, stdout>>

(* the write fails part-way (disk full): a prefix of content is on disk *)
WriteFail ==
    /\ pc = "write"
    /\ \E n \in 0..(Len(content) - 1) : file' = SubSeq(content, 1, n)
    /\ pc' = "write_failed"
    /\ UNCHANGED <<orig, content, matches, idx, seen_codes, next_code,
                   replaced, stdout>>

(* print(f"Fixed error codes. Next available code: {next_code}") *)
PrintStatus ==
    /\ pc = "print"
    /\ stdout' = Append(stdout, next_code)
    /\ pc' = "done"
    /\ UNCHANGED <<file, orig, content, matches, idx, seen_codes, next_code,
                   replaced>>

(* the process is killed between the read and the write phase *)
Crash ==
    /\ pc \in {"scan", "loop", "open_w"}
    /\ pc' = "crashed"
    /\ UNCHANGED <<file, orig, content, matches, idx, seen_codes, next_code,
                   replaced, stdout>>

Next ==
    \/ ReadFile
    \/ ReadFail
    \/ FindMatches
    \/ SkipBelow
    \/ ReplaceDuplicate
    \/ RecordSeen
    \/ LoopEnd
    \/ OpenWrite
    \/ OpenWriteFail
    \/ WriteFile
    \/ WriteFail
    \/ PrintStatus
    \/ Crash

Spec == Init /\ [][Next]_vars

----------------------------------------------------------------------------
(* Vocabulary of the properties *)

(* the pass over the matches has completed *)
Passed == pc \in {"open_w", "write", "print", "done"}

Scanned == pc \in {"loop", "open_w", "write", "print", "done"}

Qualifying(ms, k) == ms[k].code >= Threshold

ReplacedAt == { replaced[j].at : j \in DOMAIN replaced }

ReplacedVals == { replaced[j].val : j \in DOMAIN replaced }

FirstOccurrence(k) == \A j \in 1..(k - 1) : matches[j].code # matches[k].code

(* no two matches of ms carry the same value at or above the threshold *)
UniqueCodes(ms) ==
    \A a, b \in DOMAIN ms :
        (a # b /\ Qualifying(ms, a)) => ms[a].code # ms[b].code

Occurs(piece, text) ==
    \E p \in 0..(Len(text) - Len(piece)) :
        SubSeq(text, p + 1, p + Len(piece)) = piece

MaxOf(S) == CHOOSE x \in S : \A y \in S : y <= x

(* the input with the digits of the replaced matches, and nothing else,    *)
(* exchanged for the codes written: splices applied from the last          *)
(* replacement back to the first, so every offset is still the original's  *)
RECURSIVE ExactSplice(_, _)
ExactSplice(text, j) ==
    IF j = 0 THEN text
    ELSE ExactSplice(Splice(text, matches[replaced[j].at], replaced[j].val),
                     j - 1)

Example1Flush ==
    <<"A", " ", "=", " ", "2", "1", "3", "4", ",", "\n",
      "B", " ", "=", " ", "2", "1", "3", "4", ",">>

Example1FlushFixed ==
    <<"A", " ", "=", " ", "2", "1", "3", "4", ",", "\n",
      "B", " ", "=", " ", "2", "1", "3", "5", ",">>

Example1Indented ==
    <<" ", "A", " ", "=", " ", "2", "1", "3", "4", ",", "\n",
      " ", "B", " ", "=", " ", "2", "1", "3", "4", ",">>

Example1IndentedFixed ==
    <<" ", "A", " ", "=", " ", "2", "1", "3", "4", ",", "\n",
      " ", "B", " ", "=", " ", "2", "1", "3", "5", ",">>

Example2 ==
    <<" ", "A", " ", "=", " ", "2", "1", "3", "4", ",", "\n",
      " ", "B", " ", "=", " ", "2", "1", "4", "0", ",", "\n",
      " ", "C", " ", "=", " ", "2", "1", "3", "4", ",">>

Example2Fixed ==
    <<" ", "A", " ", "=", " ", "2", "1", "3", "4", ",", "\n",
      " ", "B", " ", "=", " ", "2", "1", "4", "0", ",", "\n",
      " ", "C", " ", "=", " ", "2", "1", "4", "1", ",">>

(* an assignment <identifier> = <integer>, whose identifier starts at      *)
(* offset p, leading whitespace or not                                     *)
StatementAt(text, p) ==
    LET b == WordEnd(text, p)
        c == SpaceEnd(text, b)
        d == SpaceEnd(text, c + 1)
        e == DigitEnd(text, d)
    IN  [ok |-> b > p /\ CharAt(text, c, "=") /\ e > d /\ CharAt(text, e, ","),
         s2 |-> d, e2 |-> e]

----------------------------------------------------------------------------
(* C1. Uniqueness: once the pass over all matches has completed, no two    *)
(* assignments matched in the rewritten text carry the same value at or    *)
(* above the threshold.                                                    *)
C1_Uniqueness == Passed => UniqueCodes(FindIter(content, 0))

(* C2. Stability below threshold: every matched assignment of the input    *)
(* whose value is below the threshold appears byte-identical (prefix,      *)
(* digits and comma) in the text after the pass.                           *)
C2_StableBelow ==
    Passed =>
        \A k \in DOMAIN matches :
            matches[k].code < Threshold =>
                Occurs(SubSeq(orig, matches[k].start + 1, matches[k].end),
                       content)

(* C3. Idempotence on already-unique input: when no value at or above the  *)
(* threshold occurs in more than one match of the input, the text kept in  *)
(* memory stays the text read and the text written back is byte-identical  *)
(* to it, so a second run starts from the same file and ends the same.     *)
C3_UniqueInputUnchanged ==
    /\ pc = "loop" => matches = FindIter(orig, 0)
    /\ (Scanned /\ UniqueCodes(matches)) =>
          /\ content = orig
          /\ replaced = <<>>
          /\ pc \in {"print", "done"} => file = orig

C3_Witness ==
    /\ pc = "done"
    /\ Len(matches) >= 2
    /\ \E k \in DOMAIN matches : Qualifying(matches, k)
    /\ \E k \in DOMAIN matches : ~Qualifying(matches, k)
    /\ UniqueCodes(matches)
    /\ file = orig

(* C4. Monotonic replacement: the replacement values handed out are        *)
(* strictly increasing; next_code is always greater than every member of   *)
(* seen_codes and every replacement already handed out, so a value handed  *)
(* out is never one already seen or already assigned; next_code never      *)
(* decreases.                                                              *)
C4_MonotonicReplacement ==
    /\ [](/\ \A v \in seen_codes \cup ReplacedVals : v < next_code
          /\ \A a, b \in DOMAIN replaced :
                a < b => replaced[a].val < replaced[b].val)
    /\ [][/\ next_code' >= next_code
          /\ replaced' # replaced =>
                /\ replaced' = Append(replaced, [at |-> idx, val |-> next_code])
                /\ next_code \notin seen_codes \cup ReplacedVals]_vars

C4_Witness ==
    /\ pc = "done"
    /\ Len(replaced) >= 2
    /\ replaced[1].val < replaced[2].val
    /\ \E v \in seen_codes : v > StartCode

(* C5. Value of a replacement: the value written for a duplicate is the    *)
(* maximum of the start code 2135, one more than the largest qualifying    *)
(* value first seen at an earlier match, and one more than the previous    *)
(* replacement value; 2134, 2140, 2134 yields 2134, 2140, 2141.            *)
C5_ReplacementValue ==
    /\ \A j \in DOMAIN replaced :
          replaced[j].val =
              MaxOf({StartCode}
                    \cup { matches[k].code + 1 :
                             k \in { i \in 1..(replaced[j].at - 1) :
                                       /\ Qualifying(matches, i)
                                       /\ i \notin ReplacedAt } }
                    \cup { replaced[i].val + 1 : i \in {j - 1} \cap DOMAIN replaced })
    /\ (orig = Example2 /\ Passed) => content = Example2Fixed

C5_Witness ==
    /\ orig = Example2
    /\ pc = "done"
    /\ file = Example2Fixed
    /\ replaced = <<[at |-> 3, val |-> 2141]>>

(* C6 as stated. Leading whitespace is optional: an assignment starting at *)
(* the first character of the file is found by the scan, and the file      *)
(* "A = 2134," / "B = 2134," with A at offset 0 is rewritten to            *)
(* "A = 2134," / "B = 2135,".                                              *)
C6_LeadingWhitespaceOptional ==
    /\ (Scanned /\ StatementAt(orig, 0).ok) =>
          \E k \in DOMAIN matches : matches[k].s2 = StatementAt(orig, 0).s2
    /\ (orig = Example1Flush /\ pc = "done") => file = Example1FlushFixed

(* C6 amended. Leading whitespace is required: every match starts at a     *)
(* whitespace character, an assignment whose identifier starts at the      *)
(* first character of the file is not matched, so "A = 2134," /            *)
(* "B = 2134," with A at offset 0 is written back unchanged, while the     *)
(* same two lines indented by a space become " A = 2134," / " B = 2135,".  *)
C6_LeadingWhitespaceRequired ==
    /\ Scanned =>
          /\ \A k \in DOMAIN matches : IsSpace(orig[matches[k].start + 1])
          /\ StatementAt(orig, 0).ok =>
                \A k \in DOMAIN matches :
                    matches[k].s2 # StatementAt(orig, 0).s2
    /\ (orig = Example1Flush /\ pc = "done") => file = Example1Flush
    /\ (orig = Example1Indented /\ pc = "done") => file = Example1IndentedFixed

C6_Witness ==
    /\ orig = Example1Flush
    /\ pc = "done"
    /\ Len(matches) = 1
    /\ matches[1].start = 9
    /\ replaced = <<>>
    /\ file = Example1Flush

(* C7. Exact-span splice: the text differs from the input only inside the  *)
(* integer spans of the replaced matches, each holding exactly the decimal *)
(* text of the code written for it, also after several replacements whose  *)
(* decimal text is longer or shorter than the integer replaced.            *)
C7_ExactSpanSplice == Scanned => content = ExactSplice(orig, Len(replaced))

C9_ReadThenWrite ==
    /\ [](/\ pc \in {"read", "read_failed", "scan", "loop", "crashed", "open_w"}
             => file = orig
          /\ pc \in {"open_w", "write", "write_failed", "print", "done"}
             => idx = Len(matches) + 1
          /\ pc = "open_w" => matches = FindIter(orig, 0)
          /\ pc = "read_failed" => stdout = <<>>)
    /\ [][/\ file' # file => pc \in {"open_w", "write"}
          /\ pc # "read_failed"]_vars

C9_Witness ==
    /\ pc = "crashed"
    /\ replaced # <<>>
    /\ content # orig
    /\ file = orig

(* C10. First occurrence wins: in the text after the pass, the first match *)
(* of every value at or above the threshold still carries that value and   *)
(* every later match of it carries another; the number of replacements is  *)
(* the number of qualifying matches minus the number of distinct           *)
(* qualifying values; the pass ends after one step per match.              *)
C10_FirstOccurrenceWins ==
    Passed =>
        LET out == FindIter(content, 0)
            qual == { k \in DOMAIN matches : Qualifying(matches, k) }
        IN  /\ Len(out) = Len(matches)
            /\ \A k \in qual :
                  IF FirstOccurrence(k)
                  THEN out[k].code = matches[k].code
                  ELSE out[k].code # matches[k].code
            /\ Len(replaced) =
                  Cardinality(qual)
                  - Cardinality({ matches[k].code : k \in qual })
            /\ idx = Len(matches) + 1

====
